---- MODULE Spec2Model ----
(***************************************************************************)
(* Model of src/app.py, the Streamlit "Data Center Energy Simulation".     *)
(*                                                                         *)
(* One script run of main() is one atomic step: a user event (budget       *)
(* change, "Add Another Source", "Remove", a selectbox or number_input     *)
(* edit, "Calculate", a sidebar button) runs its callback and then the     *)
(* whole script: on the "main" page the left-to-right pass over            *)
(* st.session_state.energy_sources, on "source_info" the details page.     *)
(*                                                                         *)
(* Conventions                                                             *)
(*  - Source names are strings; they are modelled as sequences of code     *)
(*    points so that sorted() is the lexicographic order Python uses.      *)
(*  - Money is integral (the floats of the source hold whole numbers in    *)
(*    the modelled catalogs), so `//` is \div (floor).                     *)
(*  - Python positions are 0-based; the sequences here are 1-based, so     *)
(*    row i of the source is position i+1. The selectbox `index`           *)
(*    parameter keeps the source's 0-based value.                          *)
(*  - Widgets are the ones the script creates with key=f"type_select_{i}"  *)
(*    and key=f"n_input_{i}". A widget keeps the value the browser holds   *)
(*    for it as long as it is created again with the same key and the same *)
(*    parameters; created with other parameters it starts from its         *)
(*    default. Widgets a run does not create are forgotten.                *)
(*  - st.number_input raises when its `value` lies outside                 *)
(*    [min_value, max_value]; st.selectbox over no options returns None,   *)
(*    and the catalog lookup of None raises IndexError (.iloc[0]).         *)
(*    An exception ends the script run where it is raised.                 *)
(***************************************************************************)
EXTENDS Integers, Sequences, FiniteSets, TLC

\* ------------------------------------------------------------------ bounds
\* Largest number of rows the user adds to energy_sources.
MaxRows == 2
\* Largest portfolio handed to aggregate.
MaxAggLen == 3
\* Largest magnitude of the remaining budget handed to allowed_max directly.
MaxRem == 4
\* Largest rate / plant cap of the profiles handed to allowed_max directly.
MaxField == 3

\* ----------------------------------------------------------- source names
Solar == <<83, 111, 108, 97, 114>>
Coal == <<67, 111, 97, 108>>
Wind == <<87, 105, 110, 100>>
\* Python's None, as returned by st.selectbox over an empty options list.
NoneType == <<>>

\* Python's str.__lt__: lexicographic order on code points.
RECURSIVE StrLess(_, _)
StrLess(a, b) ==
    IF a = <<>> THEN b # <<>>
    ELSE IF b = <<>> THEN FALSE
    ELSE IF a[1] # b[1] THEN a[1] < b[1]
    ELSE StrLess(Tail(a), Tail(b))

\* ---------------------------------------------------------------- catalog
\* A row of energy_data.xlsx, with the columns load_data documents.
DfRow(src, costs, energy, plants, waste, toxic, co2, sc) ==
    [Source |-> src, Total_costs_per_twh |-> costs, Energy_per_plant |-> energy,
     total_plants |-> plants, waste_cost |-> waste, toxic_waste_tons |-> toxic,
     co2_per_twh |-> co2, score |-> sc]

\* A two-source catalog: Solar costs 1 per plant, Coal 1 * (1 + 1) = 2 per
\* plant, two plants of each; min_budget = 1 and max_budget = 2 + 4 = 6.
\* The frame lists Solar first, so sorted() has something to reorder.
ExampleData ==
    << DfRow(Solar, 1, 1, 2, 0, 0, 0, 3), DfRow(Coal, 1, 1, 2, 1, 2, 4, -1) >>

\* A catalog with a free source (Energy_per_plant = 0 gives cost 0).
FreeSourceData ==
    << DfRow(Wind, 2, 0, 2, 1, 0, 0, 2), DfRow(Coal, 1, 2, 1, 0, 1, 3, -2) >>

Catalogs == {ExampleData, FreeSourceData}

RECURSIVE Unique(_, _)
\* df["Source"].unique().tolist(): names in order of first appearance.
Unique(names, seen) ==
    IF names = <<>> THEN <<>>
    ELSE IF Head(names) \in seen THEN Unique(Tail(names), seen)
    ELSE <<Head(names)>> \o Unique(Tail(names), seen \cup {Head(names)})

valid_sources(df) == Unique([i \in 1..Len(df) |-> df[i].Source], {})

Elems(s) == {s[i] : i \in 1..Len(s)}

\* df.loc[df["Source"] == src].iloc[0]
row_data(df, src) ==
    df[CHOOSE i \in 1..Len(df) :
         /\ df[i].Source = src
         /\ \A j \in 1..(i - 1) : df[j].Source # src]

\* Energy_per_plant * (Total_costs_per_twh + waste_cost)
min_cost_per_plant(row) ==
    row.Energy_per_plant * (row.Total_costs_per_twh + row.waste_cost)

cost_per_plant(df, src) == min_cost_per_plant(row_data(df, src))

max_cost_per_source(row) == row.total_plants * min_cost_per_plant(row)

RECURSIVE SumSeq(_)
SumSeq(s) == IF s = <<>> THEN 0 ELSE Head(s) + SumSeq(Tail(s))

Min(a, b) == IF a <= b THEN a ELSE b

min_budget(df) ==
    LET costs == {min_cost_per_plant(df[i]) : i \in 1..Len(df)}
    IN  CHOOSE m \in costs : \A c \in costs : m <= c

max_budget(df) == SumSeq([i \in 1..Len(df) |-> max_cost_per_source(df[i])])

\* ---------------------------------------------------- affordability rules
RECURSIVE Insert(_, _)
Insert(x, s) ==
    IF s = <<>> THEN <<x>>
    ELSE IF StrLess(x, Head(s)) THEN <<x>> \o s
    ELSE <<Head(s)>> \o Insert(x, Tail(s))

RECURSIVE sorted(_)
\* sorted(list): ascending, by insertion from the right (stable).
sorted(s) == IF s = <<>> THEN <<>> ELSE Insert(Head(s), sorted(Tail(s)))

RECURSIVE Filter(_, _, _)
\* The loop `for src in valid_sources: if cost_per_plant_tmp <= remaining`.
Filter(df, names, remaining) ==
    IF names = <<>> THEN <<>>
    ELSE IF cost_per_plant(df, Head(names)) <= remaining
         THEN <<Head(names)>> \o Filter(df, Tail(names), remaining)
         ELSE Filter(df, Tail(names), remaining)

\* The keep-the-selection rule without its budget condition.
KeepsSelectionAlways(remaining) == TRUE

\* `... and remaining_budget_this > 0` of the keep-the-selection rule.
KeepsSelection(remaining) == remaining > 0

\* Lines 233-242: the options of the row's selectbox.
affordable_sources(df, remaining, current) ==
    LET listed == Filter(df, valid_sources(df), remaining)
        kept == IF current \notin Elems(listed) /\ KeepsSelection(remaining)
                THEN Append(listed, current)
                ELSE listed
    IN  sorted(kept)

\* Lines 257-260 on one catalog row.
allowed_max_of(row, remaining) ==
    LET cost == min_cost_per_plant(row)
        max_plants_data == row.total_plants
        allowed_by_budget == IF cost > 0 THEN remaining \div cost
                             ELSE max_plants_data
    IN  Min(max_plants_data, allowed_by_budget)

allowed_max(df, src, remaining) == allowed_max_of(row_data(df, src), remaining)

\* list.index(x), 0-based
IndexOf(s, x) == (CHOOSE i \in 1..Len(s) : s[i] = x /\ \A j \in 1..(i-1) : s[j] # x) - 1


\* ------------------------------------------------------------------ state
VARIABLES
    df,              \* the catalog load_data returned (never written)
    page,            \* st.session_state.page
    selected_source, \* st.session_state.selected_source
    budget,          \* st.session_state.budget
    energy_sources,  \* st.session_state.energy_sources: rows {"type", "n"}
    type_select,     \* widgets "type_select_{i}" of the last run
    n_input,         \* widgets "n_input_{i}" of the last run
    rows,            \* what the last run computed and displayed for each row
    error,           \* the exception that ended the last run, "" if none
    final,           \* "Final Budget Status" of the last run, <<>> if not shown
    lastOp,          \* the user event that caused the last run
    fnRow, fnRem, fnOut, fnDone,   \* allowed_max applied to a drawn input
    portfolio, summary             \* aggregate applied to a drawn portfolio

appVars == <<df, page, selected_source, budget, energy_sources, type_select,
             n_input, rows, error, final, lastOp>>
fnVars == <<fnRow, fnRem, fnOut, fnDone>>
aggVars == <<portfolio, summary>>
vars == <<appVars, fnVars, aggVars>>

\* -------------------------------------------------------------- widgets
\* st.selectbox(options=, index=, key=f"type_select_{i}"): the value held for
\* the same widget, else options[index]; None when there are no options.
selectbox(widgets, i, options, index) ==
    IF /\ i <= Len(widgets)
       /\ widgets[i].options = options
       /\ widgets[i].index = index
    THEN widgets[i].value
    ELSE IF options = <<>> THEN NoneType ELSE options[index + 1]

\* A number_input created without max_value=allowed_max: only the lower
\* bound rejects a value.
BelowMinOnly(value, min_value, max_value) == value < min_value

\* st.number_input raises StreamlitValueBelowMinError / AboveMaxError when
\* `value` is outside [min_value, max_value].
ValueOutOfRange(value, min_value, max_value) ==
    value < min_value \/ value > max_value

\* st.number_input(label with chosen_type and allowed_max, min_value=0,
\* max_value=, value=, key=f"n_input_{i}").
number_input(widgets, i, chosen_type, max_value, value) ==
    IF /\ i <= Len(widgets)
       /\ widgets[i].type = chosen_type
       /\ widgets[i].max_value = max_value
       /\ widgets[i].default = value
    THEN widgets[i].value
    ELSE value

\* ------------------------------------------------------------- the pass
\* `accumulated_cost = row_cost` in place of `+=`.
AccumulateOverwrite(accumulated_cost, row_cost) == row_cost

\* accumulated_cost += row_cost
Accumulate(accumulated_cost, row_cost) == accumulated_cost + row_cost

\* One iteration of the loop of lines 226-287, for the row at position i.
RunRow(d, b, tW, nW, st, i) ==
    LET source_entry == st.es[i]
        remaining_budget_this == b - st.acc
        options == affordable_sources(d, remaining_budget_this, source_entry.type)
        index == IF source_entry.type \in Elems(options)
                 THEN IndexOf(options, source_entry.type) ELSE 0
        chosen_type == selectbox(tW, i, options, index)
        tw == Append(st.tw, [options |-> options, index |-> index,
                             value |-> chosen_type])
        base == [remaining |-> remaining_budget_this, options |-> options,
                 index |-> index, stored_type |-> source_entry.type,
                 stored_n |-> source_entry.n, chosen_type |-> chosen_type,
                 allowed_max |-> 0, chosen_n |-> 0, row_cost |-> 0,
                 remaining_after |-> 0, stage |-> "done"]
    IN  IF chosen_type \notin Elems(valid_sources(d))
        THEN \* line 254: .iloc[0] on an empty selection
             [st EXCEPT !.tw = tw, !.error = "IndexError",
                        !.rows = Append(@, [base EXCEPT !.stage = "no_option"])]
        ELSE
        LET cost == cost_per_plant(d, chosen_type)
            amax == allowed_max(d, chosen_type, remaining_budget_this)
        IN  IF ValueOutOfRange(source_entry.n, 0, amax)
            THEN \* line 262: number_input rejects value
                 [st EXCEPT !.tw = tw, !.error = "StreamlitAPIException",
                            !.rows = Append(@, [base EXCEPT !.allowed_max = amax,
                                                            !.stage = "out_of_range"])]
            ELSE
            LET chosen_n == number_input(nW, i, chosen_type, amax, source_entry.n)
                row_cost == chosen_n * cost
                acc == Accumulate(st.acc, row_cost)
            IN  [es |-> [st.es EXCEPT ![i] = [type |-> chosen_type, n |-> chosen_n]],
                 acc |-> acc,
                 tw |-> tw,
                 nw |-> Append(st.nw, [type |-> chosen_type, max_value |-> amax,
                                       default |-> source_entry.n, value |-> chosen_n]),
                 rows |-> Append(st.rows, [base EXCEPT !.allowed_max = amax,
                                                       !.chosen_n = chosen_n,
                                                       !.row_cost = row_cost,
                                                       !.remaining_after = b - acc]),
                 error |-> ""]

RECURSIVE RunRows(_, _, _, _, _)
\* for i, source_entry in list(enumerate(st.session_state.energy_sources))
RunRows(d, b, tW, nW, st) ==
    IF st.error # "" \/ Len(st.rows) = Len(st.es) THEN st
    ELSE RunRows(d, b, tW, nW, RunRow(d, b, tW, nW, st, Len(st.rows) + 1))

\* main() on the "main" page with the given session state and widget values.
ScriptRun(d, b, es, tW, nW) ==
    RunRows(d, b, tW, nW,
            [es |-> es, acc |-> 0, tw |-> <<>>, nw |-> <<>>, rows |-> <<>>,
             error |-> ""])

\* The state a script run on the "main" page leaves behind.
Rerun(b, es, tW, nW, op) ==
    \E st \in {ScriptRun(df, b, es, tW, nW)} :
        /\ page' = "main"
        /\ selected_source' = NoneType
        /\ budget' = b
        /\ energy_sources' = st.es
        /\ type_select' = st.tw
        /\ n_input' = st.nw
        /\ rows' = st.rows
        /\ error' = st.error
        /\ final' = IF st.error = ""
                    THEN << [total_budget |-> b, total_allocated |-> st.acc,
                             remaining |-> b - st.acc] >>
                    ELSE <<>>
        /\ lastOp' = op
        /\ UNCHANGED <<df, fnVars, aggVars>>

Op(name, i, t) == [op |-> name, i |-> i, type |-> t]

\* ------------------------------------------------------------- user events
\* The user enters b in the "Total Budget (USD)" number_input.
BudgetInput(b) ==
    /\ page = "main"
    /\ b # budget
    /\ Rerun(b, energy_sources, type_select, n_input, Op("budget", 0, NoneType))

\* "Add Another Source": add_source(), then the script.
AddSource ==
    /\ page = "main"
    /\ Len(energy_sources) < MaxRows
    /\ Rerun(budget,
             Append(energy_sources, [type |-> valid_sources(df)[1], n |-> 0]),
             type_select, n_input, Op("add", 0, NoneType))

\* list.pop(index)
Pop(s, k) == [j \in 1..(Len(s) - 1) |-> IF j < k THEN s[j] ELSE s[j + 1]]

\* "Remove" beside row k: remove_row(k), then the script. The button exists
\* for the rows the last run got past (line 277).
RemoveRow(k) ==
    /\ page = "main"
    /\ rows[k].stage = "done"
    /\ Rerun(budget, Pop(energy_sources, k), type_select, n_input,
             Op("remove", k, NoneType))

\* The user picks t in the selectbox of row k.
TypeSelect(k, t) ==
    /\ page = "main"
    /\ t \in Elems(rows[k].options)
    /\ t # type_select[k].value
    /\ Rerun(budget, energy_sources,
             [type_select EXCEPT ![k].value = t], n_input, Op("type", k, t))

\* The user enters v in the number_input of row k (the browser keeps v within
\* the widget's min_value and max_value).
NInput(k, v) ==
    /\ page = "main"
    /\ rows[k].stage = "done"
    /\ v \in 0..n_input[k].max_value
    /\ v # n_input[k].value
    /\ Rerun(budget, energy_sources, type_select,
             [n_input EXCEPT ![k].value = v], Op("n", k, NoneType))

\* "Calculate": a button without a handler; the script runs again.
Calculate ==
    /\ page = "main"
    /\ Rerun(budget, energy_sources, type_select, n_input,
             Op("calculate", 0, NoneType))

\* A sidebar button of a source: the run shows the "source_info" page, which
\* creates none of the row widgets and leaves budget and rows as stored.
SourceInfo(src) ==
    /\ page' = "source_info"
    /\ selected_source' = src
    /\ type_select' = <<>>
    /\ n_input' = <<>>
    /\ rows' = <<>>
    /\ error' = ""
    /\ final' = <<>>
    /\ lastOp' = Op("info", 0, src)
    /\ UNCHANGED <<df, budget, energy_sources, fnVars, aggVars>>

\* "Back to Simulator" in the sidebar: page = "main", then the pass.
BackToSimulator ==
    Rerun(budget, energy_sources, type_select, n_input, Op("back", 0, NoneType))

FnIdle ==
    /\ fnRow = DfRow(NoneType, 0, 0, 0, 0, 0, 0, 0)
    /\ fnRem = 0 /\ fnOut = 0 /\ fnDone = FALSE

AggIdle == portfolio = <<>> /\ summary = <<>>

\* First run of the script in a fresh session: page "main", budget at
\* min_budget, energy_sources empty.
AppInit ==
    /\ df \in Catalogs
    /\ page = "main"
    /\ selected_source = NoneType
    /\ budget = min_budget(df)
    /\ energy_sources = <<>>
    /\ type_select = <<>>
    /\ n_input = <<>>
    /\ rows = <<>>
    /\ error = ""
    /\ final = << [total_budget |-> budget, total_allocated |-> 0,
                   remaining |-> budget] >>
    /\ lastOp = Op("start", 0, NoneType)

Init == AppInit /\ FnIdle /\ AggIdle

Next ==
    \/ \E b \in min_budget(df)..max_budget(df) : BudgetInput(b)
    \/ AddSource
    \/ \E k \in 1..Len(rows) : RemoveRow(k)
    \/ \E k \in 1..Len(rows) : \E t \in Elems(valid_sources(df)) : TypeSelect(k, t)
    \/ \E k \in 1..Len(rows) : \E v \in 0..MaxField : NInput(k, v)
    \/ Calculate
    \/ \E src \in Elems(valid_sources(df)) : SourceInfo(src)
    \/ BackToSimulator

Spec == Init /\ [][Next]_vars


\* ------------------------------------------- allowed_max as a pure function
\* The inputs allowed_max is applied to: any catalog row with small fields and
\* any remaining budget, negative ones included.
FnRows ==
    { DfRow(Solar, c, e, p, w, 0, 0, 0) :
        c \in 0..MaxField, e \in 0..2, p \in 0..MaxField, w \in 0..1 }

FnRems == (0 - MaxRem)..MaxRem

InitFn ==
    /\ AppInit /\ df = ExampleData
    /\ AggIdle
    /\ fnRow \in FnRows
    /\ fnRem \in FnRems
    /\ fnOut = 0
    /\ fnDone = FALSE

\* Lines 256-260 applied to the drawn row and remaining budget.
EvalAllowedMax ==
    /\ ~fnDone
    /\ fnOut' = allowed_max_of(fnRow, fnRem)
    /\ fnDone' = TRUE
    /\ UNCHANGED <<fnRow, fnRem, appVars, aggVars>>

NextFn == EvalAllowedMax

SpecFn == InitFn /\ [][NextFn]_vars

\* -------------------------------------------------------------- aggregator
\* aggregate(catalog, portfolio): a fold over the entries
\* {sourceName, plantCount}. The repository's "Calculate" button has no
\* handler in src/app.py; the fold follows section 4.4 of the specification.
Entry(name, count) == [sourceName |-> name, plantCount |-> count]

ZeroTotals ==
    [totalEnergy |-> 0, totalCost |-> 0, totalWaste |-> 0, totalCO2 |-> 0,
     scoreSum |-> 0, plants |-> 0]

\* A fold step with the bug of multiplying the running energy total, not the
\* entry's energy, by the waste rate.
AddEntryRunningEnergy(d, acc, entry) ==
    LET profile == row_data(d, entry.sourceName)
        energy == entry.plantCount * profile.Energy_per_plant
    IN  [totalEnergy |-> acc.totalEnergy + energy,
         totalCost |-> acc.totalCost + entry.plantCount * min_cost_per_plant(profile),
         totalWaste |-> acc.totalWaste + (acc.totalEnergy + energy) * profile.toxic_waste_tons,
         totalCO2 |-> acc.totalCO2 + energy * profile.co2_per_twh,
         scoreSum |-> acc.scoreSum + entry.plantCount * profile.score,
         plants |-> acc.plants + entry.plantCount]

\* One step of the fold: the sums of section 4.4.
AddEntry(d, acc, entry) ==
    LET profile == row_data(d, entry.sourceName)
        energy == entry.plantCount * profile.Energy_per_plant
    IN  [totalEnergy |-> acc.totalEnergy + energy,
         totalCost |-> acc.totalCost + entry.plantCount * min_cost_per_plant(profile),
         totalWaste |-> acc.totalWaste + energy * profile.toxic_waste_tons,
         totalCO2 |-> acc.totalCO2 + energy * profile.co2_per_twh,
         scoreSum |-> acc.scoreSum + entry.plantCount * profile.score,
         plants |-> acc.plants + entry.plantCount]

RECURSIVE FoldEntries(_, _, _)
FoldEntries(d, acc, p) ==
    IF p = <<>> THEN acc
    ELSE FoldEntries(d, AddEntry(d, acc, Head(p)), Tail(p))

\* weightedScore is the exact quotient scoreSum / plants, kept as the pair
\* [num, den]; the defined zero is [num |-> 0, den |-> 1].
aggregate(d, p) ==
    LET t == FoldEntries(d, ZeroTotals, p)
    IN  [totalEnergy |-> t.totalEnergy, totalCost |-> t.totalCost,
         totalWaste |-> t.totalWaste, totalCO2 |-> t.totalCO2,
         weightedScore |-> IF t.plants > 0
                           THEN [num |-> t.scoreSum, den |-> t.plants]
                           ELSE [num |-> 0, den |-> 1]]

InitAgg ==
    /\ AppInit
    /\ FnIdle
    /\ portfolio = <<>>
    /\ summary = <<>>

\* The caller builds a portfolio entry by entry.
AggAppend(name, count) ==
    /\ Len(portfolio) < MaxAggLen
    /\ portfolio' = Append(portfolio, Entry(name, count))
    /\ summary' = <<>>
    /\ UNCHANGED <<appVars, fnVars>>

\* "Calculate": the summary of the portfolio as it stands.
Aggregate ==
    /\ summary = <<>>
    /\ summary' = << aggregate(df, portfolio) >>
    /\ UNCHANGED <<portfolio, appVars, fnVars>>

NextAgg ==
    \/ \E name \in Elems(valid_sources(df)) : \E count \in 0..MaxField :
          AggAppend(name, count)
    \/ Aggregate

SpecAgg == InitAgg /\ [][NextAgg]_vars


\* ================================================================ properties
\* Cost of the stored entries before position i.
SpentBefore(es, i) ==
    SumSeq([j \in 1..(i - 1) |-> es[j].n * cost_per_plant(df, es[j].type)])

Completed == error = "" /\ final # <<>> /\ Len(rows) = Len(energy_sources)

C3_RemoveKeepsOthers ==
    [][ (lastOp'.op = "remove" /\ error' = "")
          => energy_sources' = Pop(energy_sources, lastOp'.i) ]_vars

\* Plants stored for source s over all rows.
PlantsOf(s) ==
    SumSeq([i \in 1..Len(energy_sources) |->
              IF energy_sources[i].type = s THEN energy_sources[i].n ELSE 0])

\* C4: after a completed pass the plants of all rows that select the same
\* source never exceed that source's total_plants.
C4_CapPerSource ==
    Completed =>
        \A s \in Elems(valid_sources(df)) : PlantsOf(s) <= row_data(df, s).total_plants

\* C5: when the remaining budget before a row is <= 0 and no source is
\* affordable, the options are empty and the pass still completes with
\* results for every row and the totals.
C5_EmptyListCompletes ==
    \A i \in 1..Len(rows) :
        ( /\ rows[i].remaining <= 0
          /\ \A s \in Elems(valid_sources(df)) : cost_per_plant(df, s) > rows[i].remaining )
        => (rows[i].options = <<>> /\ Completed)

\* C6: at the end of every pass total_allocated is the sum of n * cost per
\* plant over the stored rows, remaining is budget - total_allocated, every
\* row's remaining_after is the budget minus the cost of the rows up to it;
\* over an empty portfolio total_allocated = 0 and remaining = budget.
C6_Totals ==
    (page = "main" /\ error = "") =>
        /\ Completed
        /\ final[1].total_budget = budget
        /\ final[1].total_allocated = SpentBefore(energy_sources, Len(energy_sources) + 1)
        /\ final[1].remaining = budget - final[1].total_allocated
        /\ \A i \in 1..Len(rows) :
             rows[i].remaining_after = budget - SpentBefore(energy_sources, i + 1)
        /\ (energy_sources = <<>> =>
              final[1].total_allocated = 0 /\ final[1].remaining = budget)

\* C6 witness: a completed pass over two rows of different sources that both
\* cost something.
C6_Witness ==
    /\ Completed
    /\ Len(energy_sources) = 2
    /\ energy_sources[1].type # energy_sources[2].type
    /\ rows[1].row_cost > 0 /\ rows[2].row_cost > 0

C8_SelectionKept ==
    [][ \A i \in 1..Len(rows') :
          ( /\ rows'[i].stage = "done"
            /\ rows'[i].remaining > 0
            /\ rows'[i].chosen_type # rows'[i].stored_type )
          => \/ (lastOp'.op = "type" /\ lastOp'.i = i
                   /\ lastOp'.type = rows'[i].chosen_type)
             \/ error # "" ]_vars

\* C9: after every completed pass each entry has
\* 0 <= n <= allowed_max(type, budget - cost of the entries before it), the
\* total allocated is within the budget and no remaining_after is negative.
C9_WithinAllowedMax ==
    Completed =>
        /\ \A i \in 1..Len(energy_sources) :
             /\ 0 <= energy_sources[i].n
             /\ energy_sources[i].n <=
                  allowed_max(df, energy_sources[i].type,
                              budget - SpentBefore(energy_sources, i))
        /\ final[1].total_allocated <= budget
        /\ \A i \in 1..Len(rows) : rows[i].remaining_after >= 0

\* C9 witness: a completed pass after a budget change in which a row holds as
\* many plants as the remaining budget allows, fewer than total_plants.
C9_Witness ==
    /\ Completed
    /\ lastOp.op = "budget"
    /\ \E i \in 1..Len(rows) :
         /\ rows[i].chosen_n > 0
         /\ rows[i].chosen_n = rows[i].allowed_max
         /\ rows[i].allowed_max < row_data(df, rows[i].chosen_type).total_plants

Permuted(p, f) == [i \in 1..Len(p) |-> p[f[i]]]

\* C10: the summary of a portfolio is the summary of every permutation of its
\* entries, and weightedScore is 0 when the portfolio holds no plants.
C10_OrderIndependent ==
    summary # <<>> =>
        /\ \A f \in Permutations(1..Len(portfolio)) :
             aggregate(df, Permuted(portfolio, f)) = summary[1]
        /\ (SumSeq([i \in 1..Len(portfolio) |-> portfolio[i].plantCount]) = 0
              => summary[1].weightedScore.num = 0)

\* C10 witness: a summary of three entries of two sources, all with plants.
C10_Witness ==
    /\ summary # <<>>
    /\ Len(portfolio) = 3
    /\ portfolio[1].sourceName # portfolio[3].sourceName
    /\ \A i \in 1..3 : portfolio[i].plantCount > 0
    /\ summary[1].totalWaste > 0

====
